---- MODULE Spec2Model ----
\* Model of src/app.py: the Streamlit script of the idea validator.
\* One script run (top to bottom of app.py) is one atomic step; the session
\* state (st.session_state) survives between runs, everything else is
\* recomputed.  Texts are sequences of tokens; a JSON document inside an
\* upstream response is one symbolic token whose value Docs gives.
EXTENDS Integers, Sequences, FiniteSets, TLC

VARIABLES api_key, HAS_FPDF, idea_input, roast_result, execution_plan,
          expanded, roastIdea, planIdea, run, acq

vars == <<api_key, HAS_FPDF, idea_input, roast_result, execution_plan,
          expanded, roastIdea, planIdea, run, acq>>

sessionVars == <<api_key, HAS_FPDF, idea_input, roast_result, execution_plan,
                 expanded, roastIdea, planIdea, run>>

\* ---------------------------------------------------------------- bounds
MaxIdeaLen == 1
MaxPad == 1

\* ---------------------------------------------------------------- texts
None == "<None>"

Whitespace == {" ", "\n"}
NonLatin1 == {"<U+03BB>", "<U+1F480>"}
IdeaChars == {" ", "a", "<U+03BB>"}

RECURSIVE SeqsUpTo(_, _)
SeqsUpTo(S, n) ==
    IF n = 0 THEN {<<>>}
    ELSE LET shorter == SeqsUpTo(S, n - 1)
         IN  shorter \cup {Append(s, c) : s \in {t \in shorter : Len(t) = n - 1}, c \in S}

IdeaTexts == SeqsUpTo(IdeaChars, MaxIdeaLen)

RECURSIVE LStrip(_)
LStrip(s) == IF s # <<>> /\ Head(s) \in Whitespace THEN LStrip(Tail(s)) ELSE s

RECURSIVE RStrip(_)
RStrip(s) ==
    IF s # <<>> /\ s[Len(s)] \in Whitespace THEN RStrip(SubSeq(s, 1, Len(s) - 1)) ELSE s

\* str.strip()
Strip(s) == RStrip(LStrip(s))

\* s.startswith(p), s.endswith(p)
StartsWith(s, p) == Len(s) >= Len(p) /\ SubSeq(s, 1, Len(p)) = p
EndsWith(s, p) == Len(s) >= Len(p) /\ SubSeq(s, Len(s) - Len(p) + 1, Len(s)) = p

\* s.encode('latin-1', 'replace').decode('latin-1')
Latin1(s) == [i \in 1..Len(s) |-> IF s[i] \in NonLatin1 THEN "?" ELSE s[i]]

RECURSIVE Without(_, _)
Without(s, drop) ==
    IF s = <<>> THEN <<>>
    ELSE IF Head(s) \in drop THEN Without(Tail(s), drop)
         ELSE <<Head(s)>> \o Without(Tail(s), drop)

\* ---------------------------------------------------------------- values
IntScore(n) == [t |-> "int", n |-> n]
StrScore == [t |-> "str", n |-> 0]
NullScore == [t |-> "null", n |-> 0]

Obj(keys, roast, score, action, error) ==
    [kind |-> "object", keys |-> keys, roast |-> roast, score |-> score,
     action |-> action, error |-> error, truthy |-> keys # {}]

Scalar(kind, truthy) ==
    [kind |-> kind, keys |-> {}, roast |-> <<>>, score |-> IntScore(0),
     action |-> "", error |-> <<>>, truthy |-> truthy]

NoneResult == Scalar("None", FALSE)

AllKeys == {"roast", "score", "action"}
LiveRoast == <<"Nobody wants this.", "<U+1F480>">>
LiveAction == "Talk to ten customers."

\* the JSON documents the upstream may send, by token
DocNames == {"{ok50}", "{ok0}", "{ok100}", "{score150}", "{score-1}", "{scoreStr}",
             "{scoreNull}", "{noScore}", "{}", "{okWithError}", "null", "[1]",
             "\"text\"", "7"}

Docs(d) ==
    CASE d = "{ok50}" -> Obj(AllKeys, LiveRoast, IntScore(50), LiveAction, <<>>)
      [] d = "{ok0}" -> Obj(AllKeys, LiveRoast, IntScore(0), LiveAction, <<>>)
      [] d = "{ok100}" -> Obj(AllKeys, LiveRoast, IntScore(100), LiveAction, <<>>)
      [] d = "{score150}" -> Obj(AllKeys, LiveRoast, IntScore(150), LiveAction, <<>>)
      [] d = "{score-1}" -> Obj(AllKeys, LiveRoast, IntScore(-1), LiveAction, <<>>)
      [] d = "{scoreStr}" -> Obj(AllKeys, LiveRoast, StrScore, LiveAction, <<>>)
      [] d = "{scoreNull}" -> Obj(AllKeys, LiveRoast, NullScore, LiveAction, <<>>)
      [] d = "{noScore}" -> Obj({"roast", "action"}, LiveRoast, IntScore(0), LiveAction, <<>>)
      [] d = "{}" -> Obj({}, <<>>, IntScore(0), "", <<>>)
      [] d = "{okWithError}" ->
            Obj(AllKeys \cup {"error"}, LiveRoast, IntScore(50), LiveAction, <<"I cannot rate this.">>)
      [] d = "null" -> Scalar("null", FALSE)
      [] d = "[1]" -> Scalar("array", TRUE)
      [] d = "\"text\"" -> Scalar("string", TRUE)
      [] d = "7" -> Scalar("number", TRUE)

ValidDocNames == {"{ok50}", "{ok0}", "{ok100}"}

\* ---------------------------------------------------------------- upstream
\* what model.generate_content(...) / response.text may do
RaiseReasons == {"429 quota exceeded", "503 unavailable"}

Raises(reason) == [raises |-> TRUE, reason |-> reason, text |-> <<>>]
Returns(text) == [raises |-> FALSE, reason |-> "", text |-> text]

\* three backtick characters
Backtick == "<backtick>"
Fence == <<Backtick, Backtick, Backtick>>
FenceJson == Fence \o <<"j", "s", "o", "n">>

Pad(k) == [i \in 1..k |-> "\n"]

JsonFenced(d, k) == FenceJson \o Pad(k) \o <<d>> \o Pad(k) \o Fence
PlainFenced(d, k) == Fence \o Pad(k) \o <<d>> \o Pad(k) \o Fence
FencedForms(d) == {JsonFenced(d, k) : k \in 0..MaxPad} \cup {PlainFenced(d, k) : k \in 0..MaxPad}

MalformedTexts == {<<>>, <<"{ok50}", "{ok50}">>, <<"j", "s", "o", "n">>, FenceJson \o Fence}

RoastTexts ==
    {<<d>> : d \in DocNames}
    \cup {Pad(k) \o <<d>> \o Pad(k) : d \in ValidDocNames, k \in 1..MaxPad}
    \cup UNION {FencedForms(d) : d \in ValidDocNames}
    \cup MalformedTexts

RoastUpstreams == {Raises(r) : r \in RaiseReasons} \cup {Returns(t) : t \in RoastTexts}

LivePlans == {<<"1. Validate", "**", "2. Build", "<U+1F480>">>, <<>>}
PlanUpstreams == {Raises(r) : r \in RaiseReasons} \cup {Returns(t) : t \in LivePlans}

\* ---------------------------------------------------------------- functions
MockChoices == 1..2

MockResponses(i) ==
    IF i = 1
    THEN Obj(AllKeys, <<"This idea is so derivative it makes a photocopier look original.">>,
             IntScore(15), "Pivot to something that solves a real problem for people with money.", <<>>)
    ELSE Obj(AllKeys, <<"Nothing revolutionary here except how quickly the savings burn.">>,
             IntScore(5), "Do not quit your day job. Seriously.", <<>>)

\* random.choice(responses): pick is the random draw
get_mock_response(idea, pick) == MockResponses(pick)

MockPlan == <<"1. Validation", "2. MVP", "3. Outreach", "4. Pivot", "5. Scale">>

get_mock_plan(idea) == MockPlan

\* json.loads: surrounding whitespace is skipped, exactly one document is required
json_loads(text) ==
    LET body == Strip(text)
    IN  IF Len(body) = 1 /\ body[1] \in DocNames
        THEN [ok |-> TRUE, value |-> Docs(body[1])]
        ELSE [ok |-> FALSE, value |-> NoneResult]

\* the "Cleanup" lines of get_ai_response
StripFence(text_response) ==
    LET t1 == IF StartsWith(text_response, FenceJson)
              THEN SubSeq(text_response, 8, Len(text_response))
              ELSE text_response
    IN  IF EndsWith(t1, Fence) THEN SubSeq(t1, 1, Len(t1) - 3) ELSE t1

ErrPrefix == "API Quota/Error (Using Mock Data): "

\* the except branch of get_ai_response
MockWithError(idea, pick, reason) ==
    LET result == get_mock_response(idea, pick)
    IN  [result EXCEPT !.keys = @ \cup {"error"}, !.error = <<ErrPrefix, reason>>]

get_ai_response(idea, up, pick) ==
    IF up.raises
    THEN MockWithError(idea, pick, up.reason)
    ELSE LET parsed == json_loads(StripFence(Strip(up.text)))
         IN  IF parsed.ok THEN parsed.value
             ELSE MockWithError(idea, pick, "JSONDecodeError")

get_execution_plan(idea, up) ==
    IF up.raises
    THEN get_mock_plan(idea) \o <<"*(System Note: Generated via Mock due to API Error: ", up.reason, ")*">>
    ELSE up.text

NoPdf == [built |-> FALSE, idea |-> <<>>, roast |-> <<>>, score |-> IntScore(0), plan |-> <<>>]

\* the contents create_pdf lays out
create_pdf(idea, roast, score, plan) ==
    [built |-> TRUE, idea |-> idea, roast |-> roast, score |-> score,
     plan |-> Without(plan, {"**", "##"})]

\* ---------------------------------------------------------------- session
ApiKeys == {None, "", "AIza-key"}

NonePlan == [isNone |-> TRUE, text |-> <<>>]
SomePlan(text) == [isNone |-> FALSE, text |-> text]

\* variant: only an unset variable counts as missing (`api_key is None`)
HasCredential_NoneOnly(key) == key # None

\* `not api_key` is false
HasCredential(key) == key \notin {None, ""}

\* variant: the emptiness test without .strip()
IsBlankIdea_NoStrip(idea) == idea = <<>>

\* `not idea_input.strip()`
IsBlankIdea(idea) == Strip(idea) = <<>>

\* `if st.session_state.roast_result:`
Truthy(result) ==
    CASE result.kind \in {"None", "null"} -> FALSE
      [] result.kind = "object" -> result.keys # {}
      [] OTHER -> result.truthy

\* st.progress(value): an int must lie in 0..100, anything else here is rejected
ProgressRaises(score) == ~(score.t = "int" /\ score.n >= 0 /\ score.n <= 100)

\* result.get("score", 0)
GetScore(result) == IF "score" \in result.keys THEN result.score ELSE IntScore(0)

\* result.get("roast", "")
GetRoast(result) == IF "roast" \in result.keys THEN result.roast ELSE <<>>

\* lines 224-239: a non-dict fails on `in` / `.get`, a dict on st.progress
DisplayRaises(result) ==
    IF result.kind # "object" THEN TRUE ELSE ProgressRaises(GetScore(result))

\* variant: line 217 left out, the stored plan survives a new roast
OnRoastAccepted_NoReset(result) == [roast_result |-> result, execution_plan |-> execution_plan]

\* lines 216-217
OnRoastAccepted(result) == [roast_result |-> result, execution_plan |-> NonePlan]

\* the "Display Results" block, the expander body included (a with-body always runs)
DisplayBlock(text, result, plan, up) ==
    LET display == Truthy(result)
        crashed == display /\ DisplayRaises(result)
        reached == display /\ ~crashed
        planCalled == reached /\ plan.isNone
        plan2 == IF planCalled THEN SomePlan(get_execution_plan(text, up)) ELSE plan
        pdfBuilt == reached /\ plan2.text # <<>> /\ HAS_FPDF
    IN  [crashed |-> crashed, shown |-> reached,
         degraded |-> display /\ result.kind = "object" /\ "error" \in result.keys,
         planCalled |-> planCalled, execution_plan |-> plan2,
         pdf |-> IF pdfBuilt
                 THEN create_pdf(Latin1(text), Latin1(GetRoast(result)), GetScore(result), Latin1(plan2.text))
                 ELSE NoPdf]

\* the plan call is made exactly when line 246 is reached with no plan stored
PlanCallMade(result, plan) == Truthy(result) /\ ~DisplayRaises(result) /\ plan.isNone

NoUpstream == Raises("")

NoRun ==
    [kind |-> "init", notice |-> "none", accepted |-> FALSE, roastCalled |-> FALSE,
     planCalled |-> FALSE, crashed |-> FALSE, shown |-> FALSE, degraded |-> FALSE,
     expanded |-> FALSE, stalePlan |-> FALSE, pdf |-> NoPdf]

\* the rest of a script run after the "Action Button" block: s is the session
\* state that block leaves, the upstream plan behaviour is drawn if it is called
FinishRun(kind, notice, accepted, text, s) ==
    \E up \in IF PlanCallMade(s.roast_result, s.execution_plan) THEN PlanUpstreams ELSE {NoUpstream} :
      \E d \in {DisplayBlock(text, s.roast_result, s.execution_plan, up)} :
        /\ idea_input' = text
        /\ roast_result' = s.roast_result
        /\ execution_plan' = d.execution_plan
        /\ roastIdea' = IF accepted THEN text ELSE roastIdea
        /\ planIdea' = IF d.planCalled THEN text
                       ELSE IF accepted THEN <<>> ELSE planIdea
        /\ run' = [kind |-> kind, notice |-> notice, accepted |-> accepted,
                   roastCalled |-> accepted, planCalled |-> d.planCalled,
                   crashed |-> d.crashed, shown |-> d.shown, degraded |-> d.degraded,
                   expanded |-> expanded,
                   stalePlan |-> ~execution_plan.isNone /\ planIdea # text,
                   pdf |-> d.pdf]
        /\ UNCHANGED <<api_key, HAS_FPDF, expanded, acq>>

Stored == [roast_result |-> roast_result, execution_plan |-> execution_plan]

\* one run of the script with the button pressed or not
ScriptRun(kind, clicked, text) ==
    IF ~clicked
    THEN FinishRun(kind, "none", FALSE, text, Stored)
    ELSE IF IsBlankIdea(text)
    THEN FinishRun(kind, "empty", FALSE, text, Stored)
    ELSE IF ~HasCredential(api_key)
    THEN FinishRun(kind, "nokey", FALSE, text, Stored)
    ELSE \E ur \in RoastUpstreams :
           \E result \in {get_ai_response(text, ur, pick) : pick \in MockChoices} :
             FinishRun(kind, "none", TRUE, text, OnRoastAccepted(result))

IdleAcq == [pc |-> "idle", idea |-> <<>>, upstream |-> Raises(""), pick |-> 1, result |-> NoneResult]

Init ==
    /\ api_key \in ApiKeys
    /\ HAS_FPDF \in BOOLEAN
    /\ idea_input = <<>>
    /\ roast_result = NoneResult
    /\ execution_plan = NonePlan
    /\ expanded = FALSE
    /\ roastIdea = <<>>
    /\ planIdea = <<>>
    /\ run = NoRun
    /\ acq = IdleAcq

\* the user clicks "Roast My Idea"
ClickRoast == \E text \in {idea_input} : ScriptRun("click", TRUE, text)

\* the user commits a new text in the text area: a rerun without the button
EditIdea == \E text \in IdeaTexts \ {idea_input} : ScriptRun("edit", FALSE, text)

\* the user clicks the download button: a rerun with unchanged widgets
ClickDownload ==
    /\ run.pdf.built
    /\ \E text \in {idea_input} : ScriptRun("rerun", FALSE, text)

\* the user opens or closes the expander in the browser: no rerun
ToggleExpander ==
    /\ run.shown
    /\ expanded' = ~expanded
    /\ UNCHANGED <<api_key, HAS_FPDF, idea_input, roast_result, execution_plan,
                   roastIdea, planIdea, run, acq>>

Next == ClickRoast \/ EditIdea \/ ClickDownload \/ ToggleExpander

Spec == Init /\ [][Next]_vars

\* ---------------------------------------------------------------- acquisition alone
NonBlankIdeas == {i \in IdeaTexts : ~IsBlankIdea(i)}

InitAcq ==
    /\ api_key = "AIza-key"
    /\ HAS_FPDF = TRUE
    /\ idea_input = <<>>
    /\ roast_result = NoneResult
    /\ execution_plan = NonePlan
    /\ expanded = FALSE
    /\ roastIdea = <<>>
    /\ planIdea = <<>>
    /\ run = NoRun
    /\ acq \in {[pc |-> "call", idea |-> i, upstream |-> u, pick |-> 1, result |-> NoneResult] :
                    i \in NonBlankIdeas, u \in RoastUpstreams}

\* one call of get_ai_response(idea)
AcquireRoast ==
    /\ acq.pc = "call"
    /\ \E pick \in MockChoices :
          acq' = [acq EXCEPT !.pc = "returned", !.pick = pick,
                             !.result = get_ai_response(acq.idea, acq.upstream, pick)]
    /\ UNCHANGED sessionVars

NextAcq == AcquireRoast

SpecAcq == InitAcq /\ [][NextAcq]_vars

TypeOK ==
    /\ api_key \in ApiKeys
    /\ idea_input \in IdeaTexts
    /\ roastIdea \in IdeaTexts
    /\ planIdea \in IdeaTexts
    /\ roast_result.kind \in {"None", "object", "null", "array", "string", "number"}
    /\ execution_plan.isNone \in BOOLEAN

\* ---------------------------------------------------------------- properties
InRange(score) == score.t = "int" /\ score.n >= 0 /\ score.n <= 100

\* the result is an entry of the canned pool with a failure reason attached
IsFallback(result) ==
    /\ result.kind = "object"
    /\ "error" \in result.keys
    /\ Len(result.error) = 2 /\ result.error[1] = ErrPrefix
    /\ \E i \in MockChoices :
          [result EXCEPT !.keys = AllKeys, !.error = <<>>] = MockResponses(i)

Flagged(result) == result.kind = "object" /\ "error" \in result.keys

AcqFailed == acq.upstream.raises \/ ~json_loads(StripFence(Strip(acq.upstream.text))).ok

\* C1: get_ai_response always returns a result carrying an integer score
\* with 0 <= score <= 100, whatever the upstream does.
C1_ScoreAlwaysInRange ==
    acq.pc = "returned" =>
        /\ acq.result.kind = "object"
        /\ "score" \in acq.result.keys
        /\ InRange(acq.result.score)

\* C2: a well-formed upstream object whose score lies outside [0,100] is
\* treated as a parse failure: the result is a degraded entry of the canned pool.
C2_OutOfRangeScoreIsFallback ==
    (/\ acq.pc = "returned"
     /\ ~acq.upstream.raises
     /\ \E d \in DocNames :
           /\ acq.upstream.text = <<d>>
           /\ Docs(d).kind = "object" /\ "score" \in Docs(d).keys
           /\ Docs(d).score.t = "int" /\ ~InRange(Docs(d).score))
    => IsFallback(acq.result)

\* C3: an accepted submission never ends in a crashed script run or a blank
\* result area; the run shows a result with roast, score and action.
C3_AcceptedNeverCrashesOrBlank ==
    run.accepted => (~run.crashed /\ run.shown)

\* C4: a click with an empty or whitespace-only idea is rejected with the
\* empty-idea warning and neither the roast call nor the plan call is made
\* in that run.
C4_BlankIdeaMakesNoCall ==
    (run.kind = "click" /\ Strip(idea_input) = <<>>) =>
        /\ run.notice = "empty"
        /\ ~run.accepted
        /\ ~run.roastCalled
        /\ ~run.planCalled

C4_Witness ==
    /\ run.kind = "click"
    /\ idea_input # <<>> /\ Strip(idea_input) = <<>>
    /\ run.notice = "empty"
    /\ api_key \notin {None, ""}
    /\ Truthy(roast_result)

\* C5: with no API credential no run ever makes an upstream call, and a click
\* with a non-blank idea surfaces the configuration notice.
C5_NoCredentialNoCall ==
    api_key \in {None, ""} =>
        /\ ~run.roastCalled
        /\ ~run.planCalled
        /\ roast_result = NoneResult /\ execution_plan = NonePlan
        /\ (run.kind = "click" /\ Strip(idea_input) # <<>>) => run.notice = "nokey"

C5_Witness ==
    /\ api_key \in {None, ""}
    /\ run.kind = "click"
    /\ Strip(idea_input) # <<>>
    /\ run.notice = "nokey"

\* C6: a valid payload wrapped in a fenced code block, with or without a
\* language tag and with or without whitespace inside the fence, yields the
\* same non-degraded result as the payload unwrapped.
C6_FencedParsesLikeBare ==
    \A d \in ValidDocNames :
        (acq.pc = "returned" /\ ~acq.upstream.raises /\ acq.upstream.text \in FencedForms(d))
        => (/\ acq.result = get_ai_response(acq.idea, Returns(<<d>>), acq.pick)
            /\ ~Flagged(acq.result))

\* C7: a raised or unparsable upstream response yields a flagged entry of the
\* canned pool, and a result obtained from a live response is never flagged.
C7_DegradedExactlyOnFailure ==
    acq.pc = "returned" =>
        /\ AcqFailed => IsFallback(acq.result)
        /\ ~AcqFailed => ~Flagged(acq.result)

\* C8: when a new idea is accepted the stored plan is reset before the plan
\* call of that run, so the plan shown or exported always belongs to the idea
\* of the roast it is shown with.
C8_PlanResetOnNewRoast ==
    /\ (run.accepted /\ run.shown) => (run.planCalled /\ planIdea = idea_input)
    /\ ~execution_plan.isNone => planIdea = roastIdea
    /\ run.shown => (~execution_plan.isNone /\ planIdea = roastIdea)

C8_Witness ==
    /\ run.accepted
    /\ run.stalePlan
    /\ run.planCalled
    /\ run.shown
    /\ planIdea = idea_input

\* C9: the plan call is made only in response to the user opening the plan
\* expander; receiving a roast does not by itself start a plan acquisition.
C9_PlanOnlyOnRequest ==
    run.planCalled => run.expanded

\* C10: the idea text placed in a PDF report is the idea that was submitted
\* to produce the roast and the plan of the same report.
C10_PdfIdeaIsSubmittedIdea ==
    run.pdf.built =>
        /\ run.pdf.idea = Latin1(roastIdea)
        /\ run.pdf.idea = Latin1(planIdea)

====
